---- MODULE Spec2Model ----
(***************************************************************************)
(* Document ingestion and index coordination of spyglass:                  *)
(*   crates/spyglass/src/documents/mod.rs                                  *)
(*       delete_documents_by_uri, process_crawl_results, update_tags,      *)
(*       _get_tag_ids, _get_tag_ids_string                                 *)
(*   crates/migrations/src/m20220823_000001_migrate_search_schema.rs       *)
(*       Migration::up, get_by_id, migrate_document                        *)
(*                                                                         *)
(* Three stores are kept: the relational registry (indexed_document rows   *)
(* and their tag-join rows), the search index (a writer view holding the   *)
(* buffered operations and the committed view readers see) and the         *)
(* embedding queue.  The crawl queue is the fourth store the deleter and   *)
(* the migration touch.                                                    *)
(***************************************************************************)
EXTENDS Integers, Sequences, FiniteSets, TLC

VARIABLES
    registry,       \* indexed_document rows: [id, url, doc_id]
    tagJoins,       \* document_tag rows: <<indexed_document id, tag id>>
    tagRows,        \* tag rows that exist: the (label, value) pairs
    idx,            \* the index as its writer sees it (buffered operations applied)
    idxCommitted,   \* the index as of the last commit (what readers and a restart see)
    embQueue,       \* embedding_queue rows: [doc_id, pk, content]
    crawlQueue,     \* crawl_queue rows: [url, is_recrawl]
    embedding_api,  \* whether state.embedding_api holds a backend
    migration,      \* the schema migration: its result, its steps, the directories
    calls           \* per caller: the call in flight, its locals and its result

vars == <<registry, tagJoins, tagRows, idx, idxCommitted, embQueue, crawlQueue,
          embedding_api, migration, calls>>

stores == <<registry, tagJoins, tagRows, idx, idxCommitted, embQueue, crawlQueue>>

(***************************************************************************)
(* Bounds                                                                  *)
(***************************************************************************)
\* longest batch of crawl results / list of uris handed to one call
MaxBatch == 2
\* doc ids the index can allocate (uuids, drawn smallest-unused-first)
MaxDocs == 2
\* primary keys the registry can allocate
MaxPk == 2
\* longest tag list handed to the tag resolver on its own
MaxTags == 3

DocIds == 1..MaxDocs
Pks == 1..MaxPk

\* the callers: one record of `calls` each
Procs == DOMAIN calls

(***************************************************************************)
(* Input domains                                                           *)
(***************************************************************************)
UrlA == "https://a.test/"
\* the same location written without its path: Url::parse adds the "/"
UrlARaw == "https://a.test"
UrlB == "https://b.test/"
\* a relative reference: Url::parse fails on it
UrlBad == "a.test/1"
ParseError == "ParseError"

RawUrls == {UrlA, UrlARaw, UrlB, UrlBad}

\* Url::parse followed by as_str()/to_string(): the normalised serialisation
UrlParse(s) ==
    CASE s = UrlARaw -> UrlA
      [] s = UrlBad -> ParseError
      [] OTHER -> s

TagSource == <<"source", "x">>
TagLens == <<"lens", "y">>
TagPairs == {TagSource, TagLens}

\* the id column of a tag row: unique per (label, value)
TagIdOf(pair) == IF pair = TagSource THEN 1 ELSE 2

NoContent == "None"
Contents == {NoContent, "C"}

\* the crawl results a batch is drawn from
CrawlResults ==
    { [url |-> UrlA, content |-> "C", tags |-> <<TagSource>>],
      [url |-> UrlARaw, content |-> "C", tags |-> <<TagSource>>],
      [url |-> UrlB, content |-> NoContent, tags |-> <<>>],
      [url |-> UrlBad, content |-> NoContent, tags |-> <<>>] }

GlobalTagLists == {<<>>, <<TagLens>>}

SeqsUpTo(S, n) == UNION { [1..k -> S] : k \in 0..n }

Range(s) == { s[k] : k \in DOMAIN s }

EmptyMap == [x \in {} |-> 0]

\* HashMap::insert
MapPut(m, k, v) == [x \in (DOMAIN m) \cup {k} |-> IF x = k THEN v ELSE m[x]]

Min(S) == CHOOSE x \in S : \A y \in S : x <= y

(***************************************************************************)
(* The search index facade (spyglass_searcher): upsert, delete_many_by_id, *)
(* save.  An entry is [id, url, tags].                                     *)
(***************************************************************************)
\* delete_many_by_id: missing ids are silent no-ops
IndexDelete(ix, ids) == { e \in ix : e.id \notin ids }

\* upsert of a document that carries its id: a present id is overwritten
IndexUpsert(ix, doc) == { e \in ix : e.id # doc.id } \cup {doc}

IndexIds(ix) == { e.id : e \in ix }

(***************************************************************************)
(* The registry (entities::models::indexed_document)                       *)
(***************************************************************************)
\* the rows of the table, unfiltered
FindAll(reg, urls) == reg

\* Entity::find().filter(Column::Url.is_in(urls)).all(db)
FindByUrls(reg, urls) == { r \in reg : r.url \in urls }

\* find_by_doc_ids
FindByDocIds(reg, ids) == { r \in reg : r.doc_id \in ids }

\* get_tag_ids_by_doc_id: the tag ids joined to the row(s) holding the doc id
TagIdsByDocId(reg, joins, d) ==
    { j[2] : j \in { j \in joins : \E r \in reg : r.doc_id = d /\ r.id = j[1] } }

\* the tag ids joined to one row
TagsOfRow(joins, pk) == { j[2] : j \in { j \in joins : j[1] = pk } }

\* insert_tags_for_docs / insert_tags_for_docs_by_id: upsert of the join rows
JoinRows(pks, tids) == { <<pk, t>> : pk \in pks, t \in tids }

\* the url column is unique: an insert of rows whose urls collide with
\* each other or with a stored row is refused by the store
InsertConflict(reg, rows) ==
    \/ \E k1, k2 \in DOMAIN rows : k1 # k2 /\ rows[k1].url = rows[k2].url
    \/ \E k \in DOMAIN rows : \E r \in reg : r.url = rows[k].url

(***************************************************************************)
(* Identifier allocation                                                   *)
(***************************************************************************)
CallDocIds(c) ==
    { c.id_map[u] : u \in DOMAIN c.id_map } \cup (DOMAIN c.embedding_map)
        \cup { c.inserts[k].doc_id : k \in DOMAIN c.inserts }
        \cup { r.doc_id : r \in c.tx.rows } \cup { q.doc_id : q \in c.tx.emb }
        \cup { d.id : d \in c.docs }

UsedDocIds ==
    { r.doc_id : r \in registry } \cup IndexIds(idx) \cup IndexIds(idxCommitted)
        \cup { q.doc_id : q \in embQueue }
        \cup UNION { CallDocIds(calls[p]) : p \in Procs }

\* a new uuid: one no store and no caller holds
FreshDocId == Min(DocIds \ UsedDocIds)

CallPks(c) ==
    { r.id : r \in c.existing } \cup { r.id : r \in c.tx.rows }
        \cup { j[1] : j \in c.tx.joins } \cup { q.pk : q \in c.tx.emb }
        \cup { r.id : r \in c.added_entries }

UsedPks ==
    { r.id : r \in registry } \cup { j[1] : j \in tagJoins } \cup { q.pk : q \in embQueue }
        \cup UNION { CallPks(calls[p]) : p \in Procs }

\* the k smallest primary keys not in use, in ascending order
RECURSIVE FreshPks(_, _)
FreshPks(k, used) ==
    IF k = 0 \/ Pks \ used = {} THEN <<>>
    ELSE LET m == Min(Pks \ used) IN <<m>> \o FreshPks(k - 1, used \cup {m})

(***************************************************************************)
(* TagResolver: _get_tag_ids                                               *)
(***************************************************************************)
\* the Debug form of a TagType label, as format!("{tag_type:?}") prints it
LabelDebug(l) == IF l = "source" THEN "Source" ELSE "Lens"

\* the key _get_tag_ids looks up: format!("{tag_type:?}:{value}")
UidLookup(pair) == <<LabelDebug(pair[1]), pair[2]>>

\* the key _get_tag_ids stores: format!("{}:{}", tag.label, tag.value)
UidStore(pair) == <<pair[1], pair[2]>>

RECURSIVE Dedup(_)
Dedup(s) ==
    IF s = <<>> THEN <<>>
    ELSE <<Head(s)>> \o SelectSeq(Dedup(Tail(s)), LAMBDA x : x # Head(s))

\* tag::get_or_create_many: creates the missing rows, returns one row per pair
GetOrCreateMany(pairs) == Dedup(pairs)

\* _get_tag_ids(db, tags, tag_cache); ok: whether get_or_create_many succeeded.
\* Gives the ids returned, the cache afterwards, the tag rows got or created
\* and the round-trip made (the pairs get_or_create_many was asked for), if any.
GetTagIds(tags, cache, ok) ==
    LET hit(t) == UidLookup(t) \in DOMAIN cache
        cached == SelectSeq(tags, hit)
        to_search == SelectSeq(tags, LAMBDA t : ~hit(t))
        models == IF ok THEN GetOrCreateMany(to_search) ELSE <<>>
        stored == { UidStore(models[k]) : k \in DOMAIN models }
    IN [ tids |-> [k \in 1..Len(cached) |-> cache[UidLookup(cached[k])]]
                    \o [k \in 1..Len(models) |-> TagIdOf(models[k])],
         cache |-> [u \in (DOMAIN cache) \cup stored |->
                      IF u \in stored
                      THEN TagIdOf(CHOOSE m \in Range(models) : UidStore(m) = u)
                      ELSE cache[u]],
         created |-> Range(models),
         asked |-> IF to_search = <<>> THEN <<>> ELSE <<Range(to_search)>> ]

(***************************************************************************)
(* A caller's call: the operation, its position, its locals, its result    *)
(***************************************************************************)
NoTx == [rows |-> {}, joins |-> {}, emb |-> {}]

\* what a call found persisted when it began
NoSnapshot == [registry |-> {}, tagJoins |-> {}, tagRows |-> {}, embQueue |-> {},
               idx |-> {}, idxCommitted |-> {}]

Snapshot == [registry |-> registry, tagJoins |-> tagJoins, tagRows |-> tagRows,
             embQueue |-> embQueue, idx |-> idx, idxCommitted |-> idxCommitted]

IdleCall ==
    [ op |-> "none", pc |-> "idle",
      results |-> <<>>, gtags |-> <<>>, i |-> 0,
      existing |-> {}, id_map |-> EmptyMap, model_map |-> EmptyMap,
      tag_map |-> EmptyMap, tag_cache |-> EmptyMap, global_tids |-> <<>>,
      embedding_map |-> EmptyMap,
      inserts |-> <<>>, updates |-> <<>>, added_docs |-> <<>>,
      tx |-> NoTx, added_entries |-> {},
      uris |-> <<>>, docs |-> {}, add |-> <<>>, remove |-> <<>>, old |-> EmptyMap,
      pre |-> NoSnapshot, again |-> FALSE, repair |-> {},
      fault |-> "none", log |-> <<>>, trips |-> <<>>, at |-> "none",
      ret |-> "none", num_added |-> 0, num_updated |-> 0 ]

\* the call as it stands once it has returned: inputs, events and result
Returned(c, ret, added, updated) ==
    [ IdleCall EXCEPT !.op = c.op, !.pc = "done",
                      !.results = c.results, !.gtags = c.gtags,
                      !.uris = c.uris,
                      !.docs = c.docs, !.add = c.add, !.remove = c.remove,
                      !.old = c.old, !.fault = c.fault, !.log = c.log,
                      !.trips = c.trips,
                      !.pre = c.pre, !.again = c.again, !.repair = c.repair,
                      !.at = c.pc,
                      !.ret = ret, !.num_added = added, !.num_updated = updated ]

\* the fault a call carries once `f` has been injected into it
Faulted(c, f) == IF f = "none" THEN c ELSE [c EXCEPT !.fault = f]

\* at most one injected fault per call
MayFault(c, f) == f = "none" \/ c.fault = "none"

(***************************************************************************)
(* process_crawl_results, one action per stretch between suspension points *)
(***************************************************************************)
\* the crawl results whose url has no registry row: each takes a new doc id
\* and a new primary key
Unregistered(results) ==
    { k \in DOMAIN results : FindByUrls(registry, {results[k].url}) = {} }

\* the check of the batch left out
EmptyBatchNever(results) == FALSE

\* line 123: results.is_empty()
EmptyBatch(results) == results = <<>>

\* lines 123-168: the empty batch; else the lookup of the rows whose url is
\* one of the batch's (raw) urls, the two maps built from them, the
\* pre-delete of their doc ids from the index, the global tags, the
\* transaction.
\* again: the batch repeats the caller's previous, successful one;
\* repair: the urls of the batch a crash cut short between the two commits.
PcrBegin(p, results, gtags, f, again, repair) ==
    LET c0 == [IdleCall EXCEPT !.op = "ingest", !.results = results,
                               !.gtags = gtags, !.pre = Snapshot,
                               !.again = again, !.repair = repair]
        parsed_urls == { results[k].url : k \in DOMAIN results }
        existing == IF f = "find" THEN {} ELSE FindByUrls(registry, parsed_urls)
        byUrl(u) == CHOOSE r \in existing : r.url = u
        byDoc(d) == CHOOSE r \in existing : r.doc_id = d
        id_map == [u \in { r.url : r \in existing } |-> byUrl(u).doc_id]
        model_map == [d \in { r.doc_id : r \in existing } |-> byDoc(d)]
        doc_id_list == { id_map[u] : u \in DOMAIN id_map }
        g == GetTagIds(gtags, EmptyMap, f # "tags")
    IN /\ f \in {"none", "find", "index_delete", "tags"}
       /\ Cardinality(DocIds \ UsedDocIds) >= Cardinality(Unregistered(results))
       /\ Cardinality(Pks \ UsedPks) >= Cardinality(Unregistered(results))
       /\ IF EmptyBatch(results)
          THEN /\ calls' = [calls EXCEPT ![p] = Returned(c0, "ok", 0, 0)]
               /\ UNCHANGED <<idx, tagRows>>
          ELSE /\ idx' = IF f = "index_delete" THEN idx
                         ELSE IndexDelete(idx, doc_id_list)
               /\ tagRows' = tagRows \cup g.created
               /\ calls' = [calls EXCEPT ![p] = Faulted(
                      [c0 EXCEPT !.pc = "loop", !.i = 1,
                                 !.existing = existing,
                                 !.id_map = id_map, !.model_map = model_map,
                                 !.global_tids = g.tids, !.tag_cache = g.cache,
                                 !.trips = g.asked,
                                 !.log = <<"predelete">>], f)]
       /\ UNCHANGED <<registry, tagJoins, idxCommitted, embQueue, crawlQueue,
                      embedding_api, migration>>

\* a call of process_crawl_results by a caller with no call in flight
PcrStart(p, results, gtags, f) ==
    /\ calls[p].pc = "idle"
    /\ PcrBegin(p, results, gtags, f, FALSE, {})

\* the caller hands the batch it has just ingested to process_crawl_results again
PcrAgain(p) ==
    LET c == calls[p]
    IN /\ c.pc = "done" /\ c.op = "ingest" /\ c.ret = "ok" /\ c.results # <<>>
       /\ PcrBegin(p, c.results, c.gtags, "none", TRUE, {})

\* the url stored in place of the parsed one
DocumentUrlRaw(crawl_result) ==
    IF UrlParse(crawl_result.url) = ParseError THEN ParseError ELSE crawl_result.url

\* lines 176, 187, 202, 205: the url the index entry and the staged registry
\* row carry is the parsed url, serialised
DocumentUrl(crawl_result) == UrlParse(crawl_result.url)

\* lines 169-217, one crawl result: its tags, its url, the upsert, the
\* staged insert or update.  A url that does not parse and an upsert that
\* fails return the error at once; the transaction is dropped.
PcrResult(p, f) ==
    LET c == calls[p]
        r == c.results[c.i]
        g == GetTagIds(r.tags, c.tag_cache, f # "tags")
        tags_for_crawl == g.tids \o c.global_tids
        url == DocumentUrl(r)
        doc_id == IF r.url \in DOMAIN c.id_map THEN c.id_map[r.url] ELSE FreshDocId
        isNew == doc_id \notin DOMAIN c.model_map
        last == c.i = Len(c.results)
    IN /\ c.op = "ingest" /\ c.pc = "loop" /\ c.i <= Len(c.results)
       /\ f \in {"none", "tags", "upsert"} /\ MayFault(c, f)
       /\ r.url \in DOMAIN c.id_map \/ DocIds \ UsedDocIds # {}
       /\ tagRows' = tagRows \cup g.created
       /\ IF url = ParseError \/ f = "upsert"
          THEN /\ calls' = [calls EXCEPT ![p] = Returned(
                      Faulted([c EXCEPT !.trips = c.trips \o g.asked], f), "err", 0, 0)]
               /\ idx' = idx
          ELSE /\ idx' = IndexUpsert(idx, [id |-> doc_id, url |-> url,
                                           tags |-> Range(tags_for_crawl)])
               /\ calls' = [calls EXCEPT ![p] = Faulted(
                      [c EXCEPT !.pc = IF last THEN "insert" ELSE "loop",
                                !.i = c.i + 1,
                                !.tag_cache = g.cache,
                                !.trips = c.trips \o g.asked,
                                !.tag_map = MapPut(c.tag_map, r.url, tags_for_crawl),
                                !.embedding_map =
                                    IF r.content # NoContent /\ embedding_api
                                    THEN MapPut(c.embedding_map, doc_id, r.content)
                                    ELSE c.embedding_map,
                                !.added_docs = IF isNew THEN Append(c.added_docs, url)
                                               ELSE c.added_docs,
                                !.inserts = IF isNew
                                            THEN Append(c.inserts,
                                                        [url |-> url, doc_id |-> doc_id])
                                            ELSE c.inserts,
                                !.updates = IF isNew THEN c.updates
                                            ELSE Append(c.updates, c.model_map[doc_id]),
                                !.log = Append(c.log, "upsert")], f)]
       /\ UNCHANGED <<registry, tagJoins, idxCommitted, embQueue, crawlQueue,
                      embedding_api, migration>>

\* the rows of embedding_queue::enqueue for the models `ms` that have content remembered
EnqueueRows(c, ms) ==
    { [doc_id |-> m.doc_id, pk |-> m.id, content |-> c.embedding_map[m.doc_id]] :
        m \in { m \in ms : m.doc_id \in DOMAIN c.embedding_map } }

\* the rows of insert_tags_for_docs for the models `ms` whose url is a key of tag_map
TagRowsFor(c, ms) ==
    UNION { JoinRows({m.id}, Range(c.tag_map[m.url])) :
              m \in { m \in ms : m.url \in DOMAIN c.tag_map } }

\* lines 219-242: insert_many of the staged rows, then each staged update is
\* saved and, when the save succeeded, its embedding task and its tag joins
\* are written, all inside the transaction
PcrInsert(p, f) ==
    LET c == calls[p]
        pks == FreshPks(Len(c.inserts), UsedPks)
        rows == { [id |-> pks[k], url |-> c.inserts[k].url,
                   doc_id |-> c.inserts[k].doc_id] : k \in DOMAIN c.inserts }
        saved == { c.updates[k] :
                     k \in { k \in DOMAIN c.updates :
                               /\ ~(f = "save_update" /\ k = 1)
                               /\ c.updates[k] \in registry } }
        first == IF c.updates = <<>> THEN {} ELSE {c.updates[1]}
    IN /\ c.op = "ingest" /\ c.pc = "insert"
       /\ f \in {"none", "insert_many", "save_update", "enqueue", "insert_tags"}
       /\ MayFault(c, f)
       /\ f = "save_update" => c.updates # <<>>
       /\ Len(pks) = Len(c.inserts)
       /\ IF f = "insert_many" \/ InsertConflict(registry, c.inserts)
          THEN calls' = [calls EXCEPT ![p] = Returned(Faulted(c, f), "err", 0, 0)]
          ELSE calls' = [calls EXCEPT ![p] = Faulted(
                   [c EXCEPT !.pc = "commit",
                             !.tx = [rows |-> rows,
                                     joins |-> TagRowsFor(c,
                                         IF f = "insert_tags" THEN saved \ first
                                         ELSE saved),
                                     emb |-> EnqueueRows(c,
                                         IF f = "enqueue" THEN saved \ first
                                         ELSE saved)]], f)]
       /\ UNCHANGED <<stores, embedding_api, migration>>

\* line 244: tx.commit()
PcrCommit(p, f) ==
    LET c == calls[p]
    IN /\ c.op = "ingest" /\ c.pc = "commit"
       /\ f \in {"none", "commit"} /\ MayFault(c, f)
       /\ IF f = "commit"
          THEN /\ calls' = [calls EXCEPT ![p] = Returned(Faulted(c, f), "err", 0, 0)]
               /\ UNCHANGED <<registry, tagJoins, embQueue>>
          ELSE /\ registry' = registry \cup c.tx.rows
               /\ tagJoins' = tagJoins \cup c.tx.joins
               /\ embQueue' = embQueue \cup c.tx.emb
               /\ calls' = [calls EXCEPT ![p] =
                      [c EXCEPT !.pc = "save", !.tx = NoTx,
                                !.log = Append(c.log, "commit")]]
       /\ UNCHANGED <<tagRows, idx, idxCommitted, crawlQueue, embedding_api, migration>>

\* line 245: let _ = state.index.save()
PcrSave(p, f) ==
    LET c == calls[p]
    IN /\ c.op = "ingest" /\ c.pc = "save"
       /\ f \in {"none", "index_save"} /\ MayFault(c, f)
       /\ idxCommitted' = IF f = "index_save" THEN idxCommitted ELSE idx
       /\ calls' = [calls EXCEPT ![p] = Faulted(
              [c EXCEPT !.pc = "reload", !.log = Append(c.log, "save")], f)]
       /\ UNCHANGED <<registry, tagJoins, tagRows, idx, embQueue, crawlQueue,
                      embedding_api, migration>>

\* the second transaction committed before the tag joins are written
SecondTxEventsCommitFirst(n) == <<"commit2">> \o [k \in 1..n |-> "tagjoin"]

\* lines 254-271: the events of the second transaction in program order, one
\* insert_tags_for_docs per added row that has tags remembered, then the commit
SecondTxEvents(n) == [k \in 1..n |-> "tagjoin"] \o <<"commit2">>

\* lines 247-283: the added rows are read back by url and, in a second
\* transaction, their embedding tasks and tag joins are written; the commit
\* and the result
PcrFinish(p, f) ==
    LET c == calls[p]
        added_entries == IF f = "find" THEN {}
                         ELSE FindByUrls(registry, Range(c.added_docs))
        first == IF added_entries = {} THEN {}
                 ELSE { CHOOSE m \in added_entries :
                          \A n \in added_entries : m.id <= n.id }
        tagged == { m \in added_entries : m.url \in DOMAIN c.tag_map }
        joins == TagRowsFor(c, IF f = "insert_tags" THEN added_entries \ first
                               ELSE added_entries)
        emb == EnqueueRows(c, IF f = "enqueue" THEN added_entries \ first
                              ELSE added_entries)
        events == SecondTxEvents(Cardinality(tagged))
    IN /\ c.op = "ingest" /\ c.pc = "reload"
       /\ f \in {"none", "find", "enqueue", "insert_tags", "commit"} /\ MayFault(c, f)
       /\ IF f = "commit"
          THEN /\ calls' = [calls EXCEPT ![p] =
                      Returned(Faulted([c EXCEPT !.log = c.log \o SelectSeq(events,
                                   LAMBDA e : e # "commit2")], f), "err", 0, 0)]
               /\ UNCHANGED <<tagJoins, embQueue>>
          ELSE /\ tagJoins' = tagJoins \cup joins
               /\ embQueue' = embQueue \cup emb
               /\ calls' = [calls EXCEPT ![p] =
                      Returned(Faulted([c EXCEPT !.log = c.log \o events], f),
                               "ok", Cardinality(added_entries),
                               Cardinality(c.existing))]
       /\ UNCHANGED <<registry, tagRows, idx, idxCommitted, crawlQueue, embedding_api, migration>>

\* the caller takes the result; the call's locals are gone
Return(p) ==
    /\ calls[p].pc = "done"
    /\ calls' = [calls EXCEPT ![p] = IdleCall]
    /\ UNCHANGED <<stores, embedding_api, migration>>

(***************************************************************************)
(* process_records: the variant for parser output.  A parse result is      *)
(* [url, content, tags] with url its canonical_url (NoUrl for None); the   *)
(* lens tags come as gtags.                                                *)
(***************************************************************************)
NoUrl == "None"

ParseResults ==
    { [url |-> UrlA, content |-> "C", tags |-> <<>>],
      [url |-> UrlB, content |-> "C", tags |-> <<>>],
      [url |-> UrlBad, content |-> "C", tags |-> <<>>],
      [url |-> NoUrl, content |-> "C", tags |-> <<>>] }

\* lines 296-343: the lookup by the canonical urls as given, the url -> doc id
\* map, the pre-delete, the lens tags got or created, the transaction
PrBegin(p, results, gtags, f) ==
    LET c == calls[p]
        parsed_urls == { IF results[k].url = NoUrl THEN "" ELSE results[k].url :
                           k \in DOMAIN results }
        existing == IF f = "find" THEN {} ELSE FindByUrls(registry, parsed_urls)
        id_map == [u \in { r.url : r \in existing } |->
                      (CHOOSE r \in existing : r.url = u).doc_id]
        doc_id_list == { id_map[u] : u \in DOMAIN id_map }
        models == IF f = "tags" THEN <<>> ELSE GetOrCreateMany(gtags)
        tag_list == [k \in DOMAIN models |-> TagIdOf(models[k])]
    IN /\ c.pc = "idle"
       /\ f \in {"none", "find", "index_delete", "tags"}
       /\ Cardinality(DocIds \ UsedDocIds) >= Cardinality(Unregistered(results))
       /\ Cardinality(Pks \ UsedPks) >= Cardinality(Unregistered(results))
       /\ idx' = IF f = "index_delete" THEN idx ELSE IndexDelete(idx, doc_id_list)
       /\ tagRows' = tagRows \cup Range(models)
       /\ calls' = [calls EXCEPT ![p] = Faulted(
              [IdleCall EXCEPT !.op = "records", !.results = results, !.gtags = gtags,
                               !.pre = Snapshot, !.existing = existing,
                               !.id_map = id_map, !.global_tids = tag_list,
                               !.pc = IF results = <<>> THEN "insert" ELSE "loop",
                               !.i = 1, !.log = <<"predelete">>], f)]
       /\ UNCHANGED <<registry, tagJoins, idxCommitted, embQueue, crawlQueue,
                      embedding_api, migration>>

\* line 376: !id_map.contains_key(&new_id).  The map is keyed by url and is
\* asked for the doc id the upsert returned
IsAdded(id_map, new_id) == ToString(new_id) \notin DOMAIN id_map

\* lines 346-399, one parse result: a missing canonical url, a url that does
\* not parse and an upsert that fails are passed over; else the document is
\* upserted and, when the map has no key equal to its doc id, a row is staged
PrResult(p, f) ==
    LET c == calls[p]
        r == c.results[c.i]
        url == UrlParse(r.url)
        doc_id == IF r.url \in DOMAIN c.id_map THEN c.id_map[r.url] ELSE FreshDocId
        last == c.i = Len(c.results)
        next == [c EXCEPT !.pc = IF last THEN "insert" ELSE "loop", !.i = c.i + 1]
        skipped == r.url = NoUrl \/ url = ParseError \/ f = "upsert"
        staged == ~skipped /\ IsAdded(c.id_map, doc_id)
    IN /\ c.op = "records" /\ c.pc = "loop" /\ c.i <= Len(c.results)
       /\ f \in {"none", "upsert"} /\ MayFault(c, f)
       /\ f = "upsert" => r.url # NoUrl /\ url # ParseError
       /\ skipped \/ r.url \in DOMAIN c.id_map \/ DocIds \ UsedDocIds # {}
       /\ idx' = IF skipped THEN idx
                 ELSE IndexUpsert(idx, [id |-> doc_id, url |-> url,
                                        tags |-> Range(c.global_tids)])
       /\ calls' = [calls EXCEPT ![p] = Faulted(
              [next EXCEPT !.added_docs = IF staged THEN Append(c.added_docs, url)
                                          ELSE c.added_docs,
                           !.inserts = IF staged
                                       THEN Append(c.inserts,
                                                   [url |-> url, doc_id |-> doc_id])
                                       ELSE c.inserts,
                           !.log = Append(c.log, IF skipped THEN "skip" ELSE "upsert")],
              f)]
       /\ UNCHANGED <<registry, tagJoins, tagRows, idxCommitted, embQueue, crawlQueue,
                      embedding_api, migration>>

\* line 402: insert_many of the staged rows
PrInsert(p, f) ==
    LET c == calls[p]
        pks == FreshPks(Len(c.inserts), UsedPks)
        rows == { [id |-> pks[k], url |-> c.inserts[k].url,
                   doc_id |-> c.inserts[k].doc_id] : k \in DOMAIN c.inserts }
        refused == f = "insert_many" \/ InsertConflict(registry, c.inserts)
    IN /\ c.op = "records" /\ c.pc = "insert"
       /\ f \in {"none", "insert_many"} /\ MayFault(c, f)
       /\ refused \/ Len(pks) = Len(c.inserts)
       /\ IF refused
          THEN calls' = [calls EXCEPT ![p] = Returned(Faulted(c, f), "err", 0, 0)]
          ELSE calls' = [calls EXCEPT ![p] = Faulted(
                   [c EXCEPT !.pc = "commit",
                             !.tx = [rows |-> rows, joins |-> {}, emb |-> {}]], f)]
       /\ UNCHANGED <<stores, embedding_api, migration>>

\* line 403: transaction.commit()
PrCommit(p, f) ==
    LET c == calls[p]
    IN /\ c.op = "records" /\ c.pc = "commit"
       /\ f \in {"none", "commit"} /\ MayFault(c, f)
       /\ IF f = "commit"
          THEN /\ calls' = [calls EXCEPT ![p] = Returned(Faulted(c, f), "err", 0, 0)]
               /\ UNCHANGED registry
          ELSE /\ registry' = registry \cup c.tx.rows
               /\ calls' = [calls EXCEPT ![p] =
                      [c EXCEPT !.pc = "save", !.tx = NoTx,
                                !.log = Append(c.log, "commit")]]
       /\ UNCHANGED <<tagJoins, tagRows, idx, idxCommitted, embQueue, crawlQueue,
                      embedding_api, migration>>

\* lines 404-406: the index writer is locked and committed
PrSave(p, f) ==
    LET c == calls[p]
    IN /\ c.op = "records" /\ c.pc = "save"
       /\ f \in {"none", "index_save"} /\ MayFault(c, f)
       /\ idxCommitted' = IF f = "index_save" THEN idxCommitted ELSE idx
       /\ calls' = [calls EXCEPT ![p] = Faulted(
              [c EXCEPT !.pc = "reload", !.log = Append(c.log, "save")], f)]
       /\ UNCHANGED <<registry, tagJoins, tagRows, idx, embQueue, crawlQueue,
                      embedding_api, migration>>

\* lines 408-422: the added rows are read back by url and the lens tags are
\* joined to them; the rows are the result
PrFinish(p, f) ==
    LET c == calls[p]
        added_entries == IF f = "find" THEN {}
                         ELSE FindByUrls(registry, Range(c.added_docs))
        joins == IF f = "insert_tags" THEN {}
                 ELSE JoinRows({ m.id : m \in added_entries }, Range(c.global_tids))
    IN /\ c.op = "records" /\ c.pc = "reload"
       /\ f \in {"none", "find", "insert_tags"} /\ MayFault(c, f)
       /\ f = "insert_tags" => added_entries # {}
       /\ tagJoins' = tagJoins \cup joins
       /\ calls' = [calls EXCEPT ![p] =
              Returned(Faulted([c EXCEPT !.log = Append(c.log, "tagjoin")], f),
                       "ok", Cardinality(added_entries), Cardinality(c.existing))]
       /\ UNCHANGED <<registry, tagRows, idx, idxCommitted, embQueue, crawlQueue,
                      embedding_api, migration>>

(***************************************************************************)
(* delete_documents_by_uri.  The list is one chunk (it is shorter than     *)
(* BATCH_SIZE).  Every step's error is logged and the next step runs.      *)
(***************************************************************************)
\* crawl_queue::delete_many_by_url
CrawlQueueDelete(q, urls) == { e \in q : e.url \notin urls }

\* indexed_document::delete_many_by_url: the rows and, with them, their tag joins
RegistryDelete(reg, urls) == { r \in reg : r.url \notin urls }

JoinsOfRows(joins, reg) == { j \in joins : \E r \in reg : r.id = j[1] }

\* lines 57-105 for the call record `rec`
DeleteBody(p, uri, f, rec) ==
    LET urls == Range(uri)
        existing == IF f = "find" THEN {} ELSE FindByUrls(registry, urls)
        doc_id_list == { r.doc_id : r \in existing }
    IN /\ f \in {"none", "crawl_queue", "find", "index_delete", "embeddings", "registry"}
       /\ crawlQueue' = IF f = "crawl_queue" THEN crawlQueue
                        ELSE CrawlQueueDelete(crawlQueue, urls)
       /\ idx' = IF f = "index_delete" THEN idx ELSE IndexDelete(idx, doc_id_list)
       \* vec_to_indexed::delete_all_by_urls removes the stored vectors of the
       \* urls, a table none of the operations here writes: no store changes
       /\ registry' = IF f = "registry" THEN registry ELSE RegistryDelete(registry, urls)
       /\ tagJoins' = JoinsOfRows(tagJoins, registry')
       /\ calls' = [calls EXCEPT ![p] = Returned(rec, "ok", 0, 0)]
       /\ UNCHANGED <<tagRows, idxCommitted, embQueue, embedding_api, migration>>

\* a call of delete_documents_by_uri by a caller with no call in flight
DeleteDocumentsByUri(p, uri, f) ==
    /\ calls[p].pc = "idle"
    /\ DeleteBody(p, uri, f, Faulted([IdleCall EXCEPT !.op = "delete", !.uris = uri,
                                                      !.pre = Snapshot], f))

\* the caller repeats a delete one step of which had failed, and no step fails
DeleteRetry(p) ==
    LET c == calls[p]
    IN /\ c.pc = "done" /\ c.op = "delete" /\ c.fault # "none" /\ ~c.again
       /\ DeleteBody(p, c.uris, "none", [c EXCEPT !.again = TRUE])

(***************************************************************************)
(* update_tags                                                             *)
(***************************************************************************)
\* _get_tag_ids_string(db, tags, tag_cache): the keys are looked up and
\* stored under the label's string form
GetTagIdsString(tags, cache, ok) ==
    LET hit(t) == UidStore(t) \in DOMAIN cache
        cached == SelectSeq(tags, hit)
        to_search == SelectSeq(tags, LAMBDA t : ~hit(t))
        models == IF ok THEN GetOrCreateMany(to_search) ELSE <<>>
        stored == { UidStore(models[k]) : k \in DOMAIN models }
    IN [ tids |-> [k \in 1..Len(cached) |-> cache[UidStore(cached[k])]]
                    \o [k \in 1..Len(models) |-> TagIdOf(models[k])],
         cache |-> [u \in (DOMAIN cache) \cup stored |->
                      IF u \in stored
                      THEN TagIdOf(CHOOSE m \in Range(models) : UidStore(m) = u)
                      ELSE cache[u]],
         created |-> Range(models),
         asked |-> IF to_search = <<>> THEN <<>> ELSE <<Range(to_search)>> ]

\* the id list handed to remove_tags_for_docs_by_id (line 478)
RemoveArg(add_ids, remove_ids) == add_ids

\* documents: entries a reader retrieved; lost: with f = "get_tags" the
\* documents whose tag ids could not be read, with f = "upsert" the documents
\* not yet upserted when an upsert failed (the map is walked in no fixed order)
UpdateTags(p, documents, add, remove, f, lost) ==
    LET c == calls[p]
        a == GetTagIdsString(add, EmptyMap, f # "tags")
        r == GetTagIdsString(remove, a.cache, f # "tags")
        add_ids == Range(a.tids)
        remove_ids == Range(r.tids)
        document_ids == { d.id : d \in documents }
        doc_uuids == IF f = "find" THEN {}
                     ELSE { m.id : m \in FindByDocIds(registry, document_ids) }
        old == [d \in document_ids |-> TagIdsByDocId(registry, tagJoins, d)]
        c0 == Faulted([IdleCall EXCEPT !.op = "update_tags", !.docs = documents,
                                       !.add = add, !.remove = remove, !.old = old], f)
        joins1 == IF add_ids # {} THEN tagJoins \cup JoinRows(doc_uuids, add_ids)
                  ELSE tagJoins
        joins2 == IF remove_ids # {}
                  THEN joins1 \ JoinRows(doc_uuids, RemoveArg(add_ids, remove_ids))
                  ELSE joins1
        updated == add_ids # {} \/ remove_ids # {}
        tag_map == IF f = "get_tags" THEN documents \ lost ELSE documents
        upserted == IF f = "upsert" THEN tag_map \ lost ELSE tag_map
        reindexed == { [id |-> d.id, url |-> d.url,
                        tags |-> TagIdsByDocId(registry, joins2, d.id)] : d \in upserted }
        deleted == IF f = "index_delete" THEN idx ELSE IndexDelete(idx, document_ids)
    IN /\ c.pc = "idle"
       /\ f \in {"none", "tags", "find", "insert_tags", "remove_tags", "get_tags",
                 "index_delete", "upsert"}
       /\ IF f \in {"get_tags", "upsert"} THEN lost # {} /\ lost \subseteq documents
          ELSE lost = {}
       /\ f = "insert_tags" => add_ids # {}
       /\ f = "remove_tags" => remove_ids # {}
       /\ f \in {"get_tags", "index_delete", "upsert"} => updated
       /\ tagRows' = tagRows \cup a.created \cup r.created
       /\ IF f = "insert_tags"
          THEN /\ calls' = [calls EXCEPT ![p] = Returned(c0, "err", 0, 0)]
               /\ UNCHANGED <<tagJoins, idx>>
          ELSE IF f = "remove_tags"
          THEN /\ calls' = [calls EXCEPT ![p] = Returned(c0, "err", 0, 0)]
               /\ tagJoins' = joins1
               /\ idx' = idx
          ELSE /\ tagJoins' = joins2
               /\ idx' = IF ~updated THEN idx
                         ELSE IndexDelete(deleted, { d.id : d \in upserted })
                                  \cup reindexed
               /\ calls' = [calls EXCEPT ![p] =
                      Returned(c0, IF f = "upsert" THEN "err" ELSE "ok", 0, 0)]
       /\ UNCHANGED <<registry, idxCommitted, embQueue, crawlQueue, embedding_api, migration>>

\* the documents a caller can hand to update_tags: what a reader retrieves
RetrievedSets == { D \in SUBSET idxCommitted : Cardinality(D) \in 1..MaxBatch }

TagLists == {<<>>, <<TagSource>>, <<TagLens>>}

UriLists == SeqsUpTo({UrlA, UrlARaw, UrlB}, MaxBatch) \ {<<>>}

(***************************************************************************)
(* The tag resolvers called on their own: a tag list, a cache as earlier   *)
(* calls of the same batch left it                                         *)
(***************************************************************************)
\* the cache after the pairs S have been resolved
CacheOf(S) ==
    [u \in { UidStore(t) : t \in S } |-> TagIdOf(CHOOSE t \in S : UidStore(t) = u)]

ResolverCaches == { CacheOf(S) : S \in SUBSET TagPairs }

ResolverTagLists == SeqsUpTo(TagPairs, MaxTags)

\* fn names the resolver; the call keeps its tag list (add), the cache it was
\* handed (old), the ids it returned (global_tids) and the cache afterwards
ResolveTags(p, fn, tags, cache, ok) ==
    LET c == calls[p]
        g == IF fn = "_get_tag_ids" THEN GetTagIds(tags, cache, ok)
             ELSE GetTagIdsString(tags, cache, ok)
    IN /\ c.pc = "idle"
       /\ fn \in {"_get_tag_ids", "_get_tag_ids_string"}
       /\ tagRows' = tagRows \cup g.created
       /\ calls' = [calls EXCEPT ![p] =
              [IdleCall EXCEPT !.op = fn, !.pc = "done", !.add = tags, !.old = cache,
                               !.global_tids = g.tids, !.tag_cache = g.cache,
                               !.trips = g.asked,
                               !.fault = IF ok THEN "none" ELSE "tags",
                               !.ret = "ok"]]
       /\ UNCHANGED <<registry, tagJoins, idx, idxCommitted, embQueue, crawlQueue,
                      embedding_api, migration>>

(***************************************************************************)
(* A call cut short.  The future of an ingestion can be dropped at any of  *)
(* its suspension points, and the process can stop at any of them.         *)
(***************************************************************************)
InFlight(c) == c.op = "ingest" /\ c.pc \notin {"idle", "done"}

\* the caller drops the future: the open transaction is rolled back, the
\* index writer keeps what was handed to it
Abandon(p) ==
    LET c == calls[p]
    IN /\ InFlight(c)
       /\ calls' = [calls EXCEPT ![p] =
              [Returned(c, "abandoned", 0, 0) EXCEPT
                   !.tag_map = c.tag_map, !.embedding_map = c.embedding_map,
                   !.added_docs = c.added_docs]]
       /\ UNCHANGED <<stores, embedding_api, migration>>

\* the process stops: open transactions are rolled back and the index is
\* back at its last commit
Crash(p) ==
    LET c == calls[p]
    IN /\ InFlight(c)
       /\ idx' = idxCommitted
       /\ calls' = [q \in Procs |->
              IF InFlight(calls[q])
              THEN Returned([calls[q] EXCEPT !.tx = NoTx], "crashed", 0, 0)
              ELSE calls[q]]
       /\ UNCHANGED <<registry, tagJoins, tagRows, idxCommitted, embQueue, crawlQueue,
                      embedding_api, migration>>

\* the first call of process_crawl_results after a crash
PcrAfterCrash(p, results, gtags) ==
    LET c == calls[p]
        cut == { c.results[k].url : k \in DOMAIN c.results }
        now == { results[k].url : k \in DOMAIN results }
    IN /\ c.pc = "done" /\ c.ret = "crashed"
       /\ PcrBegin(p, results, gtags, "none", FALSE,
                   IF c.at = "save" THEN cut \cap now ELSE {})

(***************************************************************************)
(* Migration::up (m20220823_000001_migrate_search_schema).  The old index  *)
(* directory is idxCommitted; migrated_index and the backup are kept in    *)
(* `migration`.                                                            *)
(***************************************************************************)
NoMigration ==
    [ ret |-> "none", fault |-> "none", log |-> <<>>,
      new_index |-> {}, backup |-> {}, rows |-> {}, old_index |-> {} ]

\* get_by_id: the first hit of the term query on the id field, if any
GetById(reader, doc_id) ==
    IF \E e \in reader : e.id = doc_id
    THEN { CHOOSE e \in reader : e.id = doc_id }
    ELSE {}

\* migrate_document: the registry's doc_id becomes the id field, the text
\* fields are copied; the old schema has no tags
MigrateDocument(doc_id, old_doc) == [id |-> doc_id, url |-> old_doc.url, tags |-> {}]

\* the urls enqueued as first crawls
EnqueueOverridesNoRecrawl == [force_allow |-> TRUE, is_recrawl |-> FALSE]

\* lines 189-193: the settings the urls are enqueued with
EnqueueOverrides == [force_allow |-> TRUE, is_recrawl |-> TRUE]

\* crawl_queue::enqueue_all: one row per url, an existing row is re-queued
EnqueueAll(q, urls, overrides) ==
    { e \in q : e.url \notin urls }
        \cup { [url |-> u, is_recrawl |-> overrides.is_recrawl] : u \in urls }

\* the steps with the replace done first
MigrationStepsReplaceFirst ==
    <<"create_dir", "copy", "replace", "enqueue", "commit", "backup">>

\* lines 139-218: the steps of a migration over a registry with rows, in
\* program order
MigrationSteps == <<"create_dir", "copy", "enqueue", "commit", "backup", "replace">>

\* the steps that ran when step f failed: each failing step returns at once
StepsRun(f) ==
    LET steps == MigrationSteps
    IN IF f = "open" THEN <<"create_dir">>
       ELSE IF \E k \in DOMAIN steps : steps[k] = f
       THEN SubSeq(steps, 1, (CHOOSE k \in DOMAIN steps : steps[k] = f) - 1)
       ELSE steps

\* f: the step that fails, if any; lost: with f = "add_document" the rows
\* whose document the new writer refused (the errors are collected and dropped)
MigrationUp(f, lost) ==
    LET result == registry
        recrawl_urls == { row.url : row \in result }
        copied == UNION { { MigrateDocument(row.doc_id, d) :
                              d \in GetById(idxCommitted, row.doc_id) } :
                          row \in result \ lost }
        done(ret, log, new) ==
            [ ret |-> ret, fault |-> f, log |-> log, new_index |-> new,
              backup |-> IF "backup" \in Range(log) THEN idxCommitted ELSE {},
              rows |-> lost, old_index |-> idxCommitted ]
        log == StepsRun(f)
        ran(step) == step \in Range(log)
    IN /\ migration.ret = "none"
       /\ f \in {"none", "query", "create_dir", "open", "add_document", "enqueue",
                 "commit", "backup", "replace"}
       /\ IF f = "add_document" THEN lost # {} /\ lost \subseteq result ELSE lost = {}
       /\ f \notin {"none", "query"} => result # {}
       /\ CASE f = "query" ->
                 /\ migration' = done("err", <<>>, {})
                 /\ UNCHANGED <<idx, idxCommitted, crawlQueue>>
            [] f # "query" /\ result = {} ->
                 \* nothing to migrate: the old index directory is removed
                 /\ migration' = done("ok", <<"remove_dir">>, {})
                 /\ idx' = {} /\ idxCommitted' = {}
                 /\ UNCHANGED crawlQueue
            [] f = "open" /\ result # {} ->
                 \* "Potentially already migrated?": success, nothing done
                 /\ migration' = done("ok", log, {})
                 /\ UNCHANGED <<idx, idxCommitted, crawlQueue>>
            [] f \notin {"query", "open"} /\ result # {} ->
                 /\ migration' = done(IF f \in {"none", "add_document"} THEN "ok"
                                      ELSE "err",
                                      log,
                                      IF ran("commit") /\ ~ran("replace") THEN copied
                                      ELSE {})
                 /\ crawlQueue' = IF ran("enqueue")
                                  THEN EnqueueAll(crawlQueue, recrawl_urls,
                                                  EnqueueOverrides)
                                  ELSE crawlQueue
                 /\ idx' = IF ran("replace") THEN copied ELSE idx
                 /\ idxCommitted' = IF ran("replace") THEN copied ELSE idxCommitted
       /\ UNCHANGED <<registry, tagJoins, tagRows, embQueue, embedding_api, calls>>

(***************************************************************************)
(* Specifications: one caller, no injected faults                          *)
(***************************************************************************)
Batches == SeqsUpTo(CrawlResults, MaxBatch)

Init ==
    /\ registry = {} /\ tagJoins = {} /\ tagRows = {}
    /\ idx = {} /\ idxCommitted = {}
    /\ embQueue = {} /\ crawlQueue = {}
    /\ embedding_api \in BOOLEAN
    /\ migration = NoMigration
    /\ calls = <<IdleCall>>

\* ingestion alone
Next ==
    \/ \E results \in Batches, gtags \in GlobalTagLists :
           PcrStart(1, results, gtags, "none")
    \/ PcrAgain(1)
    \/ PcrResult(1, "none")
    \/ PcrInsert(1, "none")
    \/ PcrCommit(1, "none")
    \/ PcrSave(1, "none")
    \/ PcrFinish(1, "none")
    \/ Return(1)

Spec == Init /\ [][Next]_vars

\* ingestion and the deleter
NextDelete ==
    \/ Next
    \/ \E uri \in UriLists : DeleteDocumentsByUri(1, uri, "none")

SpecDelete == Init /\ [][NextDelete]_vars

\* ingestion and the tag mutator
NextTags ==
    \/ Next
    \/ \E documents \in RetrievedSets, add \in TagLists, remove \in TagLists :
           UpdateTags(1, documents, add, remove, "none", {})

SpecTags == Init /\ [][NextTags]_vars

\* ingestion with calls cut short, a backend configured, no global tags
CrashBatches == SeqsUpTo({ r \in CrawlResults : r.url # UrlARaw }, MaxBatch)

InitCrash == Init /\ embedding_api

NextCrash ==
    \/ \E results \in CrashBatches : PcrStart(1, results, <<>>, "none")
    \/ PcrAgain(1)
    \/ PcrResult(1, "none")
    \/ PcrInsert(1, "none")
    \/ PcrCommit(1, "none")
    \/ PcrSave(1, "none")
    \/ PcrFinish(1, "none")
    \/ Return(1)
    \/ Abandon(1)
    \/ Crash(1)
    \/ \E results \in CrashBatches : PcrAfterCrash(1, results, <<>>)

SpecCrash == InitCrash /\ [][NextCrash]_vars

\* ingestion and the tag mutator with one of its writes failing
FaultBatches == SeqsUpTo({ r \in CrawlResults : r.url \in {UrlA, UrlB} }, MaxBatch)

TagFaults == {"none", "insert_tags", "remove_tags", "get_tags", "upsert"}

TagUpdates == { <<<<TagLens>>, <<>>>>, <<<<>>, <<TagSource>>>>, <<<<TagLens>>, <<TagSource>>>> }

NextTagFaults ==
    \/ \E results \in FaultBatches : PcrStart(1, results, <<>>, "none")
    \/ PcrResult(1, "none")
    \/ PcrInsert(1, "none")
    \/ PcrCommit(1, "none")
    \/ PcrSave(1, "none")
    \/ PcrFinish(1, "none")
    \/ Return(1)
    \/ \E documents \in RetrievedSets, u \in TagUpdates, f \in TagFaults,
          lost \in SUBSET idxCommitted :
           UpdateTags(1, documents, u[1], u[2], f, lost)

SpecTagFaults == InitCrash /\ [][NextTagFaults]_vars

\* ingestion and the deleter with one of its steps failing, then repeated
DeleteFaults == {"none", "index_delete", "embeddings", "registry"}

NextDeleteFaults ==
    \/ \E results \in FaultBatches : PcrStart(1, results, <<>>, "none")
    \/ PcrResult(1, "none")
    \/ PcrInsert(1, "none")
    \/ PcrCommit(1, "none")
    \/ PcrSave(1, "none")
    \/ PcrFinish(1, "none")
    \/ Return(1)
    \/ \E uri \in UriLists, f \in DeleteFaults : DeleteDocumentsByUri(1, uri, f)
    \/ DeleteRetry(1)

SpecDeleteFaults == InitCrash /\ [][NextDeleteFaults]_vars

\* ingestion of documents with content, with empty content and without content,
\* with and without an embedding backend
EmptyContent == ""

EmbedResults ==
    { [url |-> UrlA, content |-> "C", tags |-> <<>>],
      [url |-> UrlA, content |-> NoContent, tags |-> <<>>],
      [url |-> UrlB, content |-> EmptyContent, tags |-> <<>>] }

EmbedBatches == SeqsUpTo(EmbedResults, MaxBatch)

NextEmbed ==
    \/ \E results \in EmbedBatches : PcrStart(1, results, <<>>, "none")
    \/ PcrResult(1, "none")
    \/ PcrInsert(1, "none")
    \/ PcrCommit(1, "none")
    \/ PcrSave(1, "none")
    \/ PcrFinish(1, "none")
    \/ Return(1)

SpecEmbed == Init /\ [][NextEmbed]_vars

\* two callers, each with one process_crawl_results call over a batch that
\* holds the same unregistered url; the calls interleave at their suspension
\* points.  The database has one writer at a time: a transaction that has
\* written holds the write lock until it is committed or dropped.
ConcBatches == { <<r>> : r \in { r \in CrawlResults : r.url = UrlA } }

InitConc ==
    /\ registry = {} /\ tagJoins = {} /\ tagRows = {}
    /\ idx = {} /\ idxCommitted = {}
    /\ embQueue = {} /\ crawlQueue = {}
    /\ embedding_api \in BOOLEAN
    /\ migration = NoMigration
    /\ calls = <<IdleCall, IdleCall>>

NoOtherWriter(p) == \A q \in Procs \ {p} : calls[q].pc # "commit"

NextConc ==
    \/ \E p \in Procs, results \in ConcBatches, gtags \in GlobalTagLists :
           PcrStart(p, results, gtags, "none")
    \/ \E p \in Procs : PcrResult(p, "none")
    \/ \E p \in Procs : NoOtherWriter(p) /\ PcrInsert(p, "none")
    \/ \E p \in Procs : PcrCommit(p, "none")
    \/ \E p \in Procs : PcrSave(p, "none")
    \/ \E p \in Procs : PcrFinish(p, "none")

SpecConc == InitConc /\ [][NextConc]_vars

\* both ingestion variants with one write of a call failing
RecordFaultBatches ==
    SeqsUpTo({ r \in ParseResults : r.url \in {UrlA, UrlB} }, MaxBatch)

NextIngestFaults ==
    \/ \E results \in FaultBatches : PcrStart(1, results, <<>>, "none")
    \/ \E f \in {"none", "upsert"} : PcrResult(1, f)
    \/ \E f \in {"none", "insert_many", "save_update"} : PcrInsert(1, f)
    \/ \E f \in {"none", "commit"} : PcrCommit(1, f)
    \/ PcrSave(1, "none")
    \/ \E f \in {"none", "commit"} : PcrFinish(1, f)
    \/ \E results \in RecordFaultBatches : PrBegin(1, results, <<>>, "none")
    \/ \E f \in {"none", "upsert"} : PrResult(1, f)
    \/ \E f \in {"none", "insert_many"} : PrInsert(1, f)
    \/ \E f \in {"none", "commit"} : PrCommit(1, f)
    \/ PrSave(1, "none")
    \/ PrFinish(1, "none")
    \/ Return(1)

SpecIngestFaults == InitCrash /\ [][NextIngestFaults]_vars

\* process_records alone
RecordBatches == SeqsUpTo(ParseResults, MaxBatch)

NextRecords ==
    \/ \E results \in RecordBatches, gtags \in GlobalTagLists :
           PrBegin(1, results, gtags, "none")
    \/ PrResult(1, "none")
    \/ PrInsert(1, "none")
    \/ PrCommit(1, "none")
    \/ PrSave(1, "none")
    \/ PrFinish(1, "none")
    \/ Return(1)

SpecRecords == Init /\ [][NextRecords]_vars

\* the tag resolvers alone
NextResolver ==
    \/ \E fn \in {"_get_tag_ids", "_get_tag_ids_string"}, tags \in ResolverTagLists,
          cache \in ResolverCaches, ok \in BOOLEAN :
           ResolveTags(1, fn, tags, cache, ok)
    \/ Return(1)

SpecResolver == Init /\ [][NextResolver]_vars

(***************************************************************************)
(* Specification of the schema migration: it runs once, at start-up, over  *)
(* the registry and the old index an earlier version left                  *)
(***************************************************************************)
MigRows ==
    { [id |-> 1, url |-> UrlA, doc_id |-> 1], [id |-> 2, url |-> UrlB, doc_id |-> 2] }

MigDocs ==
    { [id |-> 1, url |-> UrlA, tags |-> {}], [id |-> 2, url |-> UrlB, tags |-> {}] }

MigQueues ==
    SUBSET { [url |-> UrlA, is_recrawl |-> FALSE], [url |-> UrlB, is_recrawl |-> TRUE] }

InitMig ==
    /\ registry \in SUBSET MigRows
    /\ idxCommitted \in SUBSET MigDocs
    /\ idx = idxCommitted
    /\ crawlQueue \in MigQueues
    /\ tagJoins = {} /\ tagRows = {} /\ embQueue = {}
    /\ embedding_api = FALSE
    /\ migration = NoMigration
    /\ calls = <<IdleCall>>

NextMig ==
    \E f \in {"none", "query", "create_dir", "open", "add_document", "enqueue",
              "commit", "backup", "replace"}, lost \in SUBSET MigRows :
        MigrationUp(f, lost)

SpecMig == InitMig /\ [][NextMig]_vars

(***************************************************************************)
(* Properties                                                              *)
(***************************************************************************)
\* the call caller 1 has just got back
Last == calls[1]

IngestOk == Last.pc = "done" /\ Last.op = "ingest" /\ Last.ret = "ok"

InputUrls(c) == { c.results[k].url : k \in DOMAIN c.results }

\* C1 as the spec states it: after a successful process_crawl_results, every
\* url of the batch has a registry row for that url whose doc_id is the id of
\* an index entry whose url field equals the input url (no url is skipped by
\* a call that succeeds: a parse error ends the call with the error).
C1_RowAndEntryForInputUrl ==
    IngestOk =>
        \A u \in InputUrls(Last) :
            \E r \in registry :
                /\ r.url = u
                /\ \E e \in idx : e.id = r.doc_id /\ e.url = u

\* C1 amended: after a successful process_crawl_results, every url of the
\* batch has a registry row for the parsed (canonical) form of that url whose
\* doc_id is the id of an index entry whose url field equals that parsed form.
C1_RowAndEntryForParsedUrl ==
    IngestOk =>
        \A u \in InputUrls(Last) :
            \E r \in registry :
                /\ r.url = UrlParse(u)
                /\ \E e \in idx : e.id = r.doc_id /\ e.url = UrlParse(u)

\* C1's case: a successful ingestion of a url that is not in canonical form
C1_Witness == IngestOk /\ UrlARaw \in InputUrls(Last) /\ registry # {}

\* C4: when process_crawl_results is called a second time with the batch it
\* has just ingested, the second call succeeds with num_added = 0 and leaves
\* the index, the registry (rows and tag joins) and the embedding queue as
\* the first call left them.
C4_ReingestSameState ==
    (Last.pc = "done" /\ Last.op = "ingest" /\ Last.again) =>
        /\ Last.ret = "ok"
        /\ Last.num_added = 0
        /\ registry = Last.pre.registry
        /\ tagJoins = Last.pre.tagJoins
        /\ embQueue = Last.pre.embQueue
        /\ idx = Last.pre.idx
        /\ idxCommitted = Last.pre.idxCommitted

\* Invariant D1 over an index view: every index entry has the registry row
\* of its doc_id, every registry row has its index entry, and tag joins
\* belong to registry rows
D1(ix) ==
    /\ \A e \in ix : \E r \in registry : r.doc_id = e.id
    /\ \A r \in registry : \E e \in ix : e.id = r.doc_id
    /\ \A j \in tagJoins : \E r \in registry : r.id = j[1]

\* C5: at the return of every call, whether it succeeded or returned an
\* error part-way through the batch, invariant D1 holds of the committed
\* stores: no index entry without a registry row, no registry row without an
\* index entry.
C5_D1AtReturn == Last.pc = "done" => D1(idxCommitted)

\* C6: after any sequence of process_crawl_results calls, the registry holds
\* at most one row per url, the index at most one entry per doc id, and every
\* registry row's doc_id is the id of the index entry (each index entry) of
\* that url.
C6_D2AfterCalls ==
    Last.pc = "done" =>
        /\ \A r1, r2 \in registry : r1.url = r2.url => r1 = r2
        /\ \A e1, e2 \in idxCommitted : e1.id = e2.id => e1 = e2
        /\ \A r \in registry : \A e \in idxCommitted : e.url = r.url => e.id = r.doc_id

\* the positions of event `ev` in a call's log
At(log, ev) == { k \in DOMAIN log : log[k] = ev }

\* C8: within one process_crawl_results call the index pre-delete precedes
\* every index upsert, every index upsert precedes the first registry commit
\* and the index save, and every tag-join insert for an added row precedes
\* the final registry commit.
C8_EventOrder ==
    LET log == Last.log
    IN Last.op = "ingest" =>
        /\ At(log, "upsert") # {} => At(log, "predelete") # {}
        /\ \A i \in At(log, "predelete"), j \in At(log, "upsert") : i < j
        /\ \A i \in At(log, "upsert"), j \in At(log, "commit") \cup At(log, "save") : i < j
        /\ \A i \in At(log, "tagjoin"), j \in At(log, "commit2") : i < j
        /\ \A i \in At(log, "commit") \cup At(log, "save"), j \in At(log, "commit2") : i < j

\* C8's case: a call that re-indexed a registered url, added a tagged one and
\* ran to its final commit
C8_Witness ==
    /\ IngestOk /\ Last.num_updated > 0 /\ Last.num_added > 0
    /\ At(Last.log, "tagjoin") # {} /\ At(Last.log, "commit2") # {}

\* the tag ids of a list of (label, value) pairs
TagIdsOf(tags) == { TagIdOf(t) : t \in Range(tags) }

\* C2: after update_tags(docs, {add, remove}) returns success with add and
\* remove disjoint, the registry tag set of every document of docs (that has
\* a registry row) equals (old tag set union add) minus remove.
C2_TagSetAfterUpdate ==
    (/\ Last.pc = "done" /\ Last.op = "update_tags" /\ Last.ret = "ok"
     /\ Range(Last.add) \cap Range(Last.remove) = {}) =>
        \A d \in Last.docs :
            FindByDocIds(registry, {d.id}) # {} =>
                TagIdsByDocId(registry, tagJoins, d.id)
                    = (Last.old[d.id] \cup TagIdsOf(Last.add)) \ TagIdsOf(Last.remove)

\* C3: after delete_documents_by_uri([u]) returns, no registry row, no index
\* entry and no crawl-queue row references u, whatever ingestions came
\* before.  An index entry counts when the writer and the committed index
\* both hold it.
C3_NothingReferencesUrl ==
    (Last.pc = "done" /\ Last.op = "delete") =>
        \A u \in Range(Last.uris) :
            /\ \A r \in registry : r.url # u
            /\ \A e \in idx \cap idxCommitted : e.url # u
            /\ \A q \in crawlQueue : q.url # u

Persisted ==
    [registry |-> registry, tagJoins |-> tagJoins, embQueue |-> embQueue,
     idxCommitted |-> idxCommitted]

PersistedBefore(c) ==
    [registry |-> c.pre.registry, tagJoins |-> c.pre.tagJoins,
     embQueue |-> c.pre.embQueue, idxCommitted |-> c.pre.idxCommitted]

\* what the complete post-call state holds at least: for every url of the
\* batch its registry row and committed index entry, and for every row the
\* call added the tag joins and the embedding task remembered for it
CompleteAfter(c) ==
    \A u \in InputUrls(c) :
        \E r \in registry :
            /\ r.url = UrlParse(u)
            /\ \E e \in idxCommitted : e.id = r.doc_id
            /\ (r.url \in Range(c.added_docs) /\ r.url \in DOMAIN c.tag_map)
                   => Range(c.tag_map[r.url]) \subseteq TagsOfRow(tagJoins, r.id)
            /\ (r.url \in Range(c.added_docs) /\ r.doc_id \in DOMAIN c.embedding_map)
                   => \E q \in embQueue : q.doc_id = r.doc_id /\ q.pk = r.id

\* C9: when a process_crawl_results call is abandoned at a suspension point,
\* what is persisted is either exactly what was persisted when the call
\* began or the complete post-call state.
C9_AbandonAllOrNothing ==
    (Last.pc = "done" /\ Last.ret = "abandoned") =>
        Persisted = PersistedBefore(Last) \/ CompleteAfter(Last)

\* C10: when an ingestion crashed between the registry commit and the index
\* save, after the next successful process_crawl_results of the same url
\* that url has exactly one registry row and exactly one index entry, with
\* equal doc_id.
C10_RepairAfterCrash ==
    (IngestOk /\ Last.repair # {}) =>
        \A u \in Last.repair :
            LET rows == FindByUrls(registry, {UrlParse(u)})
                entries == { e \in idxCommitted : e.url = UrlParse(u) }
            IN /\ Cardinality(rows) = 1
               /\ Cardinality(entries) = 1
               /\ \A r \in rows, e \in entries : e.id = r.doc_id

ResolverDone == Last.pc = "done" /\ Last.op \in {"_get_tag_ids", "_get_tag_ids_string"}

\* C11: the tag resolver returns one tag id per input pair, in the order of the
\* input list, whatever the cache holds (the pairs of the list distinct,
\* get_or_create_many succeeding).
C11_IdsInInputOrder ==
    (/\ ResolverDone /\ Last.fault = "none"
     /\ Cardinality(Range(Last.add)) = Len(Last.add)) =>
        /\ Len(Last.global_tids) = Len(Last.add)
        /\ \A k \in DOMAIN Last.add : Last.global_tids[k] = TagIdOf(Last.add[k])

\* the round-trips of a call that asked for the pair
TripsFor(c, pair) == { k \in DOMAIN c.trips : pair \in c.trips[k] }

\* C12: within one process_crawl_results batch, for every tag pair used by
\* the global tags or a result, at most one get_or_create_many round-trip
\* includes that pair.
C12_OneRoundTripPerPair ==
    Last.op = "ingest" =>
        \A pair \in TagPairs : Cardinality(TripsFor(Last, pair)) <= 1

\* C13: process_crawl_results called with an empty results list returns
\* {num_added: 0, num_updated: 0} at once and has made no round-trip to the
\* tag table and no index call: the registry, the tag rows, the tag joins,
\* the index and the embedding queue are as the call found them, also when
\* global_tags is not empty.
C13_EmptyBatchNoActivity ==
    (Last.op = "ingest" /\ Last.results = <<>>) =>
        /\ Last.pc = "done" /\ Last.ret = "ok"
        /\ Last.num_added = 0 /\ Last.num_updated = 0
        /\ Last.trips = <<>> /\ Last.log = <<>>
        /\ Snapshot = Last.pre

\* C13's case: an empty batch with global tags, handed over when the stores
\* hold a document and the tag (lens, y) has no row yet
C13_Witness ==
    /\ Last.pc = "done" /\ Last.op = "ingest" /\ Last.results = <<>>
    /\ Last.gtags # <<>> /\ registry # {} /\ TagLens \notin tagRows

\* C14: when an ingestion call has returned and the url of one of its documents
\* does not parse, the call has succeeded and every document of the batch whose
\* url parses has its registry row and its index entry
Unparseable(results) ==
    { k \in DOMAIN results : UrlParse(results[k].url) = ParseError }

C14_ParseErrorSkipsOnlyThatDocument ==
    (/\ Last.pc = "done" /\ Last.op \in {"ingest", "records"}
     /\ Last.fault = "none" /\ Unparseable(Last.results) # {}) =>
        /\ Last.ret = "ok"
        /\ \A k \in DOMAIN Last.results \ Unparseable(Last.results) :
              LET u == UrlParse(Last.results[k].url)
              IN Last.results[k].url # NoUrl =>
                    \E r \in registry : r.url = u /\ \E e \in idx : e.id = r.doc_id

\* C15: when update_tags has returned, a failed insert or removal of its tag
\* rows has made it return an error, and a failed re-upsert of one document has
\* left it successful with every other document of the call back in the index
NotReindexed(c) == { d \in c.docs : ~\E e \in idx : e.id = d.id }

C15_UpdateTagsFailures ==
    (Last.pc = "done" /\ Last.op = "update_tags") =>
        /\ Last.fault \in {"insert_tags", "remove_tags"} => Last.ret = "err"
        /\ Last.fault = "upsert" =>
              Last.ret = "ok" /\ Cardinality(NotReindexed(Last)) <= 1

\* C16: when process_crawl_results has returned and its insert_many, the save
\* of a staged update or the commit of the transaction holding them had
\* failed, it has returned an error and the registry is as it was when the
\* call began
C16_WriteFailureAborts ==
    (/\ Last.pc = "done" /\ Last.op = "ingest"
     /\ \/ Last.fault \in {"insert_many", "save_update"}
        \/ Last.fault = "commit" /\ Last.at = "commit") =>
        Last.ret = "err" /\ registry = Last.pre.registry

\* C17: when process_crawl_results or process_records has returned and an
\* index upsert of the call had failed, the call has returned an error, no
\* document was upserted after the failure and the registry is as it was when
\* the call began
C17_UpsertFailureAborts ==
    (/\ Last.pc = "done" /\ Last.op \in {"ingest", "records"}
     /\ Last.fault = "upsert") =>
        /\ Last.ret = "err"
        /\ Last.at = "loop"
        /\ registry = Last.pre.registry

\* C18: when delete_documents_by_uri([u]) has returned without a failed step,
\* repeating a call in which the index delete, the embeddings delete or the
\* registry delete had failed, and before the first of the two calls every
\* index entry of u had its registry row, no registry row and no index entry
\* references u.  An index entry counts as in C3.
C18_DeleteRetryConverges ==
    (/\ Last.pc = "done" /\ Last.op = "delete" /\ Last.again
     /\ Last.fault \in {"index_delete", "embeddings", "registry"}
     /\ Len(Last.uris) = 1
     /\ \A e \in Last.pre.idx :
           e.url = Last.uris[1] =>
              \E r \in Last.pre.registry : r.doc_id = e.id /\ r.url = e.url) =>
        /\ \A r \in registry : r.url # Last.uris[1]
        /\ \A e \in idx \cap idxCommitted : e.url # Last.uris[1]

\* C19: while process_records goes through its batch and until it hands the
\* staged rows to insert_many, every staged row is for a url that has no
\* registry row
C19_RecordsStageOnlyUnregistered ==
    (Last.op = "records" /\ Last.pc \in {"loop", "insert"}) =>
        \A k \in DOMAIN Last.inserts :
            \A r \in registry : r.url # Last.inserts[k].url

\* C20: when process_crawl_results has returned success: with a backend
\* configured the embedding queue holds the item (doc_id, primary key, content)
\* of every document of the batch whose content is non-empty, and the call
\* has added no item for a document none of whose crawl results in the batch
\* has non-empty content; with no backend the call has added no item at all
HasContent(r) == r.content \notin {NoContent, EmptyContent}

EnqueuedByCall == embQueue \ Last.pre.embQueue

C20_OneItemPerDocumentWithContent ==
    (Last.pc = "done" /\ Last.op = "ingest" /\ Last.ret = "ok") =>
        /\ ~embedding_api => EnqueuedByCall = {}
        /\ embedding_api =>
              \A k \in DOMAIN Last.results :
                 \A row \in { r \in registry : r.url = UrlParse(Last.results[k].url) } :
                    /\ HasContent(Last.results[k]) =>
                          [doc_id |-> row.doc_id, pk |-> row.id,
                           content |-> Last.results[k].content] \in embQueue
                    /\ (\A j \in DOMAIN Last.results :
                           Last.results[j].url = Last.results[k].url
                              => ~HasContent(Last.results[j])) =>
                          \A item \in EnqueuedByCall : item.doc_id # row.doc_id

\* C21: when Migration::up has returned, a replace of the old index directory
\* came after the enqueue, the commit of the new writer and the backup, in
\* that order, and if the enqueue, the commit, the backup or the replace
\* failed the migration returned an error and the old index directory is as
\* it was
C21_ReplaceLastOrNotAtAll ==
    LET log == migration.log
    IN migration.ret # "none" =>
        /\ \A k \in At(log, "replace") :
              \E i \in At(log, "enqueue"), j \in At(log, "commit"),
                 b \in At(log, "backup") : i < j /\ j < b /\ b < k
        /\ migration.fault \in {"enqueue", "commit", "backup", "replace"} =>
              /\ migration.ret = "err"
              /\ idxCommitted = migration.old_index

\* C21's case: the backup failed after the new writer had committed an index
\* that differs from the old one
C21_Witness ==
    /\ migration.ret = "err" /\ migration.fault = "backup"
    /\ migration.new_index # migration.old_index
    /\ migration.new_index # {}

\* C22: when process_crawl_results has returned success over a batch of urls
\* given in their parsed form, for every url of the batch the tag ids of its
\* index entry are the tag ids joined to its registry row
C22_IndexTagsEqualJoinedTags ==
    (/\ Last.pc = "done" /\ Last.op = "ingest" /\ Last.ret = "ok"
     /\ Last.fault = "none"
     /\ \A u \in InputUrls(Last) : UrlParse(u) = u) =>
        \A k \in DOMAIN Last.results :
            \A row \in { r \in registry : r.url = UrlParse(Last.results[k].url) } :
                \A e \in { e \in idx : e.id = row.doc_id } :
                    e.tags = TagsOfRow(tagJoins, row.id)

\* C23: when update_tags has returned success after adding or removing tags,
\* every document it was handed has an index entry under its doc id
C23_DocumentsStayIndexed ==
    (/\ Last.pc = "done" /\ Last.op = "update_tags" /\ Last.ret = "ok"
     /\ Last.fault # "tags"
     /\ Last.add # <<>> \/ Last.remove # <<>>) =>
        \A d \in Last.docs : \E e \in idx : e.id = d.id

\* C24: while process_crawl_results runs a second time over the batch it has
\* just ingested, the lookup has found the doc id of every url of the batch
\* and no row is staged for insertion
C24_SecondIngestionFindsRow ==
    (Last.op = "ingest" /\ Last.again /\ Last.pc # "done") =>
        /\ \A u \in InputUrls(Last) : u \in DOMAIN Last.id_map
        /\ Last.inserts = <<>>

\* the urls a call was handed, as given and as parsed
CallUrls(c) ==
    LET given == IF c.op = "delete" THEN Range(c.uris) ELSE InputUrls(c)
    IN given \cup { UrlParse(u) : u \in given }

RowsOfUrl(reg, u) == { r \in reg : r.url = u }

JoinsOfUrl(reg, joins, u) == { j \in joins : \E r \in RowsOfUrl(reg, u) : r.id = j[1] }

EntriesOfUrl(ix, u) == { e \in ix : e.url = u }

C26_ConcurrentSameUrl ==
    (\A p \in Procs : calls[p].pc = "done" /\ calls[p].op = "ingest") =>
        /\ \A r1, r2 \in registry : r1.url = r2.url => r1 = r2
        /\ \A e \in idx \cap idxCommitted : \E r \in registry : r.doc_id = e.id
====
